---------------------------- MODULE Spec2Model ----------------------------
(***************************************************************************)
(* The four catalog controllers (Author, Genre, Book, BookInstance) of the *)
(* local library, as a state machine over the document store.              *)
(*                                                                         *)
(* Strings are sequences of one-character strings, so that trim, escape    *)
(* and the case-insensitive collation are computed and not assumed.        *)
(* ObjectIds are the one-character strings "1", "2", ...; a value read     *)
(* from the store is a sequence of length 0 (null) or 1 (the document).    *)
(* Request bodies carry well-formed ObjectIds, empty strings or nothing in *)
(* their reference fields, and schema-valid values elsewhere.  A date or a *)
(* status is written as one chunk ("2025-01-01", "Loaned") that the string *)
(* functions treat as a single character.  Validation messages are given   *)
(* in English, page titles are left out of the render locals, and a sorted *)
(* list handed to a template is the set of its documents.                  *)
(*                                                                         *)
(* Spec runs one handler at a time, each to completion.  SpecInterleaved   *)
(* lets the genre handlers suspend at their store calls, SpecAuthorBook    *)
(* the Author delete POST and the Book create POST.                        *)
(***************************************************************************)
EXTENDS Naturals, Sequences, FiniteSets

\* ------------------------------------------------------------------ bounds
\* ObjectIds a collection hands out, and a request can name
MaxId == 2
\* create POSTs that are allowed to save, over all collections
MaxCreates == 2
\* requests in flight at once in the interleaved specification
MaxPending == 2

ObjectIdOf == <<"1", "2", "3", "4", "5", "6", "7", "8", "9">>
ObjectIds == {ObjectIdOf[n] : n \in 1..MaxId}

\* JavaScript's undefined and null as field values
Undefined == <<"undefined">>
Null == <<"null">>
\* an ObjectId-typed path that holds nothing
UndefinedRef == "undefined"
\* the _id of a document that was built and never saved
UnsavedId == "unsaved"

\* ----------------------------------------------------- validation library
WhiteSpace == {" ", "\t", "\n", "\r", "\f"}

RECURSIVE TrimLeft(_)
TrimLeft(s) ==
    IF s = <<>> THEN <<>>
    ELSE IF Head(s) \in WhiteSpace THEN TrimLeft(Tail(s)) ELSE s

RECURSIVE TrimRight(_)
TrimRight(s) ==
    IF s = <<>> THEN <<>>
    ELSE IF s[Len(s)] \in WhiteSpace THEN TrimRight(SubSeq(s, 1, Len(s) - 1)) ELSE s

\* an absent field is read as the empty string by every chain
ToStr(v) == IF v = Undefined \/ v = Null THEN <<>> ELSE v

Trim(s) == TrimRight(TrimLeft(s))

\* validator.js escape; the backquote, its ninth character, is outside the
\* alphabet of this model
EscapeChar(c) ==
    CASE c = "&" -> <<"&", "a", "m", "p", ";">>
      [] c = "<" -> <<"&", "l", "t", ";">>
      [] c = ">" -> <<"&", "g", "t", ";">>
      [] c = "\"" -> <<"&", "q", "u", "o", "t", ";">>
      [] c = "'" -> <<"&", "#", "x", "2", "7", ";">>
      [] c = "/" -> <<"&", "#", "x", "2", "F", ";">>
      [] c = "\\" -> <<"&", "#", "x", "5", "C", ";">>
      [] OTHER -> <<c>>

RECURSIVE Escape(_)
Escape(s) == IF s = <<>> THEN <<>> ELSE EscapeChar(Head(s)) \o Escape(Tail(s))

UpperCase == <<"A", "B", "C", "D", "E", "F", "G", "H", "I", "J", "K", "L", "M",
               "N", "O", "P", "Q", "R", "S", "T", "U", "V", "W", "X", "Y", "Z">>
LowerCase == <<"a", "b", "c", "d", "e", "f", "g", "h", "i", "j", "k", "l", "m",
               "n", "o", "p", "q", "r", "s", "t", "u", "v", "w", "x", "y", "z">>
Digits == {"0", "1", "2", "3", "4", "5", "6", "7", "8", "9"}

LowerChar(c) ==
    IF \E i \in 1..26 : UpperCase[i] = c
    THEN LowerCase[CHOOSE i \in 1..26 : UpperCase[i] = c]
    ELSE c

Lower(s) == [i \in 1..Len(s) |-> LowerChar(s[i])]

IsLength(s, min) == Len(s) >= min

IsAlphanumeric(s) ==
    /\ s # <<>>
    /\ \A i \in 1..Len(s) :
          \/ s[i] \in Digits
          \/ \E j \in 1..26 : UpperCase[j] = s[i] \/ LowerCase[j] = s[i]

\* the dates the requests of this model carry; anything else is no date
ISODates == {<<"1775-12-16">>, <<"2025-01-01">>}
IsISO8601(s) == s \in ISODates
ToDate(s) == IF IsISO8601(s) THEN <<"Date">> \o s ELSE Null
Falsy(v) == v = Undefined \/ v = Null \/ v = <<>>

\* --------------------------------------------------------- document store
\* casts of the document constructors
IsObjectIdString(s) == Len(s) = 1 /\ \E n \in 1..Len(ObjectIdOf) : ObjectIdOf[n] = s[1]
CastObjectId(v) ==
    IF v # Undefined /\ v # Null /\ IsObjectIdString(v) THEN v[1] ELSE UndefinedRef
CastDate(v) == IF v = <<>> THEN Null ELSE v

FindById(coll, id) == IF id \in DOMAIN coll THEN <<coll[id]>> ELSE <<>>
\* find(): every document of the collection
AllOf(coll) == {coll[i] : i \in DOMAIN coll}
Remove(coll, id) == [i \in DOMAIN coll \ {id} |-> coll[i]]
Insert(coll, doc) == [i \in DOMAIN coll \cup {doc._id} |-> IF i = doc._id THEN doc ELSE coll[i]]

\* the four collections; the documents each collection has saved; the request
\* handled last, the calls it made on res and next, and its writes to the
\* store; the handlers suspended at a store call
VARIABLES authors, genres, books, bookinstances, created, req, resp, ops, pending

store == <<authors, genres, books, bookinstances>>
vars == <<authors, genres, books, bookinstances, created, req, resp, ops, pending>>

Models == {"Author", "Genre", "Book", "BookInstance"}
Saved == created["Author"] + created["Genre"] + created["Book"] + created["BookInstance"]
\* new Model(...) draws an ObjectId that no document has had
CanCreate(model) == created[model] < MaxId /\ Saved < MaxCreates
NewObjectId(model) == ObjectIdOf[created[model] + 1]
Count(model) == [created EXCEPT ![model] = @ + 1]

\* findByIdAndUpdate(id, doc): $set of the paths the document defines
RefPaths == {"_id", "author", "book"}
IsDefined(doc, f) ==
    f \in DOMAIN doc /\ (IF f \in RefPaths THEN doc[f] # UndefinedRef ELSE doc[f] # Undefined)
SetDefined(old, doc) == [f \in DOMAIN old |-> IF IsDefined(doc, f) THEN doc[f] ELSE old[f]]
FindByIdAndUpdate(coll, id, doc) ==
    IF id \in DOMAIN coll THEN [coll EXCEPT ![id] = SetDefined(@, doc)] ELSE coll

\* ------------------------------------------------------- request, response
Render(view, locals) == [call |-> "render", view |-> view, locals |-> locals]
Redirect(url) == [call |-> "redirect", url |-> url]
NextError(status) == [call |-> "next", err |-> [name |-> "Error", status |-> status]]
\* a TypeError thrown inside asyncHandler reaches next(err) with no status
NextTypeError == [call |-> "next", err |-> [name |-> "TypeError"]]
Invalid(path, msg) == [path |-> path, msg |-> msg]
Write(op, model, id) == [op |-> op, model |-> model, id |-> id]

\* the url virtual of the four schemas, and the list routes
Url(model, id) ==
    CASE model = "Author" -> <<"/catalog/author/", id>>
      [] model = "Genre" -> <<"/catalog/genre/", id>>
      [] model = "Book" -> <<"/catalog/book/", id>>
      [] model = "BookInstance" -> <<"/catalog/bookinstance/", id>>
ListUrl(model) ==
    CASE model = "Author" -> <<"/catalog/authors">>
      [] model = "Genre" -> <<"/catalog/genres">>
      [] model = "Book" -> <<"/catalog/books">>
      [] model = "BookInstance" -> <<"/catalog/bookinstances">>

Reply(r, w) == resp' = r /\ ops' = w

\* req.params.id and req.body as the router hands them to a handler
Get(handler, id) == [handler |-> handler, id |-> id]
Post(handler, id, body) == [handler |-> handler, id |-> id, body |-> body]
CreatePost(handler, body) == [handler |-> handler, body |-> body]

\* the test with its bound off by one: found.length > 1
HasMoreThanOne(found) == Cardinality(found) > 1

\* found.length > 0
HasAny(found) == Cardinality(found) > 0

BooksByAuthor(id) == {b \in AllOf(books) : b.author = id}
BooksInGenre(id) == {b \in AllOf(books) : \E i \in 1..Len(b.genre) : b.genre[i] = id}
InstancesOfBook(id) == {c \in AllOf(bookinstances) : c.book = id}

\* ------------------------------------------------------ author controller
\* optional({ values: "falsy" }).isISO8601().toDate()
OptionalDate(v) == IF Falsy(v) THEN v ELSE ToDate(v)
OptionalDateErrors(path, v, msg) ==
    IF Falsy(v) \/ IsISO8601(v) THEN <<>> ELSE <<Invalid(path, msg)>>

\* trim().isLength({ min: 1 }).escape().withMessage(..).isAlphanumeric().withMessage(..)
NameErrors(path, v) ==
    (IF IsLength(Trim(ToStr(v)), 1) THEN <<>> ELSE <<Invalid(path, "required")>>)
    \o (IF IsAlphanumeric(Escape(Trim(ToStr(v)))) THEN <<>>
        ELSE <<Invalid(path, "alphanumeric only")>>)

AuthorErrors(body) ==
    NameErrors("first_name", body.first_name)
    \o NameErrors("family_name", body.family_name)
    \o OptionalDateErrors("date_of_birth", body.date_of_birth, "invalid date of birth")
    \o OptionalDateErrors("date_of_death", body.date_of_death, "invalid date of death")

NewAuthor(body, id) ==
    [_id |-> id,
     first_name |-> Escape(Trim(ToStr(body.first_name))),
     family_name |-> Escape(Trim(ToStr(body.family_name))),
     date_of_birth |-> CastDate(OptionalDate(body.date_of_birth)),
     date_of_death |-> CastDate(OptionalDate(body.date_of_death))]

AuthorBodies ==
    {[first_name |-> <<"J", "o">>, family_name |-> <<"A", "u">>,
      date_of_birth |-> <<"1775-12-16">>, date_of_death |-> <<>>],
     [first_name |-> <<" ", "A", "l", " ">>, family_name |-> <<"B", "2">>,
      date_of_birth |-> <<>>, date_of_death |-> <<>>],
     [first_name |-> <<" ", " ">>, family_name |-> <<"A", "u">>,
      date_of_birth |-> <<>>, date_of_death |-> <<>>],
     [first_name |-> <<"J", "o">>, family_name |-> Undefined,
      date_of_birth |-> <<>>, date_of_death |-> <<>>],
     [first_name |-> <<"J", "<">>, family_name |-> <<"A", "u">>,
      date_of_birth |-> <<"s", "o", "o", "n">>, date_of_death |-> <<>>]}

AuthorDetail(id) ==
    LET author == FindById(authors, id)
        allBooksByAuthor == BooksByAuthor(id)
    IN  /\ Reply(IF author = <<>> THEN <<NextError(404)>>
                 ELSE <<Render("author_detail",
                               [author |-> author, author_books |-> allBooksByAuthor])>>,
                 <<>>)
        /\ UNCHANGED <<store, created, pending>>

AuthorCreatePost(body) ==
    LET errors == AuthorErrors(body)
    IN  IF errors # <<>>
        THEN /\ Reply(<<Render("author_form",
                               [author |-> <<NewAuthor(body, UnsavedId)>>, errors |-> errors])>>,
                      <<>>)
             /\ UNCHANGED <<store, created, pending>>
        ELSE /\ CanCreate("Author")
             /\ LET author == NewAuthor(body, NewObjectId("Author"))
                IN  /\ authors' = Insert(authors, author)
                    /\ Reply(<<Redirect(Url("Author", author._id))>>,
                             <<Write("save", "Author", author._id)>>)
             /\ created' = Count("Author")
             /\ UNCHANGED <<genres, books, bookinstances, pending>>

AuthorDeleteGet(id) ==
    LET author == FindById(authors, id)
        allBooksByAuthor == BooksByAuthor(id)
        view == Render("author_delete", [author |-> author, author_books |-> allBooksByAuthor])
    IN  /\ Reply(IF author = <<>> THEN <<Redirect(ListUrl("Author")), view>> ELSE <<view>>,
                 <<>>)
        /\ UNCHANGED <<store, created, pending>>

AuthorDeletePost(id, authorid) ==
    LET author == FindById(authors, id)
        allBooksByAuthor == BooksByAuthor(id)
    IN  IF HasAny(allBooksByAuthor)
        THEN /\ Reply(<<Render("author_delete",
                               [author |-> author, author_books |-> allBooksByAuthor])>>,
                      <<>>)
             /\ UNCHANGED <<store, created, pending>>
        ELSE /\ authors' = Remove(authors, authorid)
             /\ Reply(<<Redirect(ListUrl("Author"))>>,
                      <<Write("findByIdAndDelete", "Author", authorid)>>)
             /\ UNCHANGED <<genres, books, bookinstances, created, pending>>

AuthorUpdateGet(id) ==
    LET author == FindById(authors, id)
    IN  /\ Reply(IF author = <<>> THEN <<NextError(404)>>
                 ELSE <<Render("author_form", [author |-> author])>>,
                 <<>>)
        /\ UNCHANGED <<store, created, pending>>

AuthorUpdatePost(id, body) ==
    LET errors == AuthorErrors(body)
        author == NewAuthor(body, id)
    IN  IF errors # <<>>
        THEN /\ Reply(<<Render("author_form", [author |-> <<author>>, errors |-> errors])>>,
                      <<>>)
             /\ UNCHANGED <<store, created, pending>>
        ELSE /\ authors' = FindByIdAndUpdate(authors, id, author)
             /\ Reply(<<Redirect(Url("Author", author._id))>>,
                      <<Write("findByIdAndUpdate", "Author", id)>>)
             /\ UNCHANGED <<genres, books, bookinstances, created, pending>>

\* ------------------------------------------------------- genre controller
\* body("name", ..).trim().isLength({ min: 3 }).escape()
GenreErrors(body) ==
    IF IsLength(Trim(ToStr(body.name)), 3) THEN <<>>
    ELSE <<Invalid("name", "at least 3 characters")>>

NewGenre(body, id) == [_id |-> id, name |-> Escape(Trim(ToStr(body.name)))]

\* the query without its collation: names compare byte for byte
BinaryEqual(a, b) == a = b

\* collation { locale: "en", strength: 2 }: letters compare without their case
CollationEqual(a, b) == Lower(a) = Lower(b)
GenreFindOne(name) == {g \in AllOf(genres) : CollationEqual(g.name, name)}

GenreBodies ==
    {[name |-> <<" ", "s", "c", "i", " ">>],
     [name |-> <<"S", "c", "i">>],
     [name |-> <<"a", "&", "b">>],
     [name |-> <<" ", "a", "b", " ">>],
     [name |-> Undefined]}

GenreDetail(id) ==
    LET genre == FindById(genres, id)
        booksInGenre == BooksInGenre(id)
    IN  /\ Reply(IF genre = <<>> THEN <<NextError(404)>>
                 ELSE <<Render("genre_detail",
                               [genre |-> genre, genre_books |-> booksInGenre])>>,
                 <<>>)
        /\ UNCHANGED <<store, created, pending>>

\* the handler after findOne has answered genreExists (null: <<>>)
GenreCreateResume(genre, genreExists) ==
    IF genreExists # <<>>
    THEN /\ Reply(<<Redirect(Url("Genre", genreExists[1]._id))>>, <<>>)
         /\ UNCHANGED <<store, created>>
    ELSE /\ CanCreate("Genre")
         /\ LET saved == [genre EXCEPT !._id = NewObjectId("Genre")]
            IN  /\ genres' = Insert(genres, saved)
                /\ Reply(<<Redirect(Url("Genre", saved._id))>>,
                         <<Write("save", "Genre", saved._id)>>)
         /\ created' = Count("Genre")
         /\ UNCHANGED <<authors, books, bookinstances>>

\* findOne answers one of the documents that match, or null
GenreFindOneResults(name) ==
    IF GenreFindOne(name) = {} THEN {<<>>} ELSE {<<g>> : g \in GenreFindOne(name)}

GenreCreatePost(body) ==
    LET errors == GenreErrors(body)
        genre == NewGenre(body, UnsavedId)
    IN  IF errors # <<>>
        THEN /\ Reply(<<Render("genre_form", [genre |-> <<genre>>, errors |-> errors])>>,
                      <<>>)
             /\ UNCHANGED <<store, created, pending>>
        ELSE /\ \E genreExists \in GenreFindOneResults(genre.name) :
                    GenreCreateResume(genre, genreExists)
             /\ UNCHANGED pending

GenreDeleteGet(id) ==
    LET genre == FindById(genres, id)
        booksInGenre == BooksInGenre(id)
        view == Render("genre_delete", [genre |-> genre, genre_books |-> booksInGenre])
    IN  /\ Reply(IF genre = <<>> THEN <<Redirect(ListUrl("Genre")), view>> ELSE <<view>>,
                 <<>>)
        /\ UNCHANGED <<store, created, pending>>

GenreDeletePost(id, bodyid) ==
    LET genre == FindById(genres, id)
        booksInGenre == BooksInGenre(id)
    IN  IF HasAny(booksInGenre)
        THEN /\ Reply(<<Render("genre_delete",
                               [genre |-> genre, genre_books |-> booksInGenre])>>,
                      <<>>)
             /\ UNCHANGED <<store, created, pending>>
        ELSE /\ genres' = Remove(genres, bodyid)
             /\ Reply(<<Redirect(ListUrl("Genre"))>>,
                      <<Write("findByIdAndDelete", "Genre", bodyid)>>)
             /\ UNCHANGED <<authors, books, bookinstances, created, pending>>

GenreUpdateGet(id) ==
    LET genre == FindById(genres, id)
    IN  /\ Reply(IF genre = <<>> THEN <<NextError(404)>>
                 ELSE <<Render("genre_form", [genre |-> genre])>>,
                 <<>>)
        /\ UNCHANGED <<store, created, pending>>

GenreUpdatePost(id, body) ==
    LET errors == GenreErrors(body)
        genre == NewGenre(body, id)
    IN  IF errors # <<>>
        THEN /\ Reply(<<Render("genre_form", [genre |-> <<genre>>, errors |-> errors])>>,
                      <<>>)
             /\ UNCHANGED <<store, created, pending>>
        ELSE /\ genres' = FindByIdAndUpdate(genres, id, genre)
             /\ Reply(<<Redirect(Url("Genre", genre._id))>>,
                      <<Write("findByIdAndUpdate", "Genre", id)>>)
             /\ UNCHANGED <<authors, books, bookinstances, created, pending>>

\* -------------------------------------------------------- book controller
\* the first middleware: req.body.genre becomes an array
ToArray(g) ==
    IF g.kind = "array" THEN g.items
    ELSE IF g.kind = "undefined" THEN <<>> ELSE <<g.items[1]>>

\* body(field, ..).trim().isLength({ min: 1 }).escape()
RequiredErrors(path, v) ==
    IF IsLength(Trim(ToStr(v)), 1) THEN <<>> ELSE <<Invalid(path, "required")>>

BookErrors(body) ==
    RequiredErrors("title", body.title)
    \o RequiredErrors("author", body.author)
    \o RequiredErrors("summary", body.summary)
    \o RequiredErrors("isbn", body.isbn)

NewBook(body, id) ==
    [_id |-> id,
     title |-> Escape(Trim(ToStr(body.title))),
     author |-> CastObjectId(Escape(Trim(ToStr(body.author)))),
     summary |-> Escape(Trim(ToStr(body.summary))),
     isbn |-> Escape(Trim(ToStr(body.isbn))),
     genre |-> [i \in 1..Len(ToArray(body.genre)) |->
                    CastObjectId(Escape(ToArray(body.genre)[i]))]]

BookBodies ==
    {[title |-> <<"E", "m">>, author |-> <<"1">>, summary |-> <<"s">>, isbn |-> <<"9">>,
      genre |-> [kind |-> "undefined", items |-> <<>>]],
     [title |-> <<" ", "P", "&", "P">>, author |-> <<"2">>, summary |-> <<"t">>,
      isbn |-> <<"8">>, genre |-> [kind |-> "string", items |-> <<<<"1">>>>]],
     [title |-> <<" ">>, author |-> <<"1">>, summary |-> <<"s">>, isbn |-> <<"9">>,
      genre |-> [kind |-> "array", items |-> <<<<"1">>, <<"2">>>>]],
     [title |-> <<"E", "m">>, author |-> Undefined, summary |-> <<"s">>, isbn |-> <<>>,
      genre |-> [kind |-> "undefined", items |-> <<>>]]}

HasGenre(book, id) == \E i \in 1..Len(book.genre) : book.genre[i] = id
\* genre.checked = "true" on the genres of the book
GenresChecked(book) ==
    {[_id |-> g._id, name |-> g.name,
      checked |-> IF HasGenre(book, g._id) THEN "true" ELSE "undefined"] : g \in AllOf(genres)}

\* populate: a reference that resolves to nothing reads null; in an array it is dropped
PopulateAuthor(book) == [book EXCEPT !.author = FindById(authors, @)]
PopulateGenre(book) ==
    [book EXCEPT !.genre =
        LET found == SelectSeq(@, LAMBDA g : g \in DOMAIN genres)
        IN  [i \in 1..Len(found) |-> genres[found[i]]]]
FindBook(id) ==
    IF id \in DOMAIN books THEN <<PopulateGenre(PopulateAuthor(books[id]))>> ELSE <<>>

BookDetail(id) ==
    LET book == FindBook(id)
        bookInstances == InstancesOfBook(id)
    IN  /\ Reply(IF book = <<>> THEN <<NextError(404)>>
                 ELSE <<Render("book_detail",
                               [title |-> book[1].title, book |-> book,
                                book_instances |-> bookInstances])>>,
                 <<>>)
        /\ UNCHANGED <<store, created, pending>>

BookCreatePost(body) ==
    LET errors == BookErrors(body)
    IN  IF errors # <<>>
        THEN /\ Reply(<<Render("book_form",
                               [authors |-> AllOf(authors),
                                genres |-> GenresChecked(NewBook(body, UnsavedId)),
                                book |-> <<NewBook(body, UnsavedId)>>,
                                errors |-> errors])>>,
                      <<>>)
             /\ UNCHANGED <<store, created, pending>>
        ELSE /\ CanCreate("Book")
             /\ LET book == NewBook(body, NewObjectId("Book"))
                IN  /\ books' = Insert(books, book)
                    /\ Reply(<<Redirect(Url("Book", book._id))>>,
                             <<Write("save", "Book", book._id)>>)
             /\ created' = Count("Book")
             /\ UNCHANGED <<authors, genres, bookinstances, pending>>

BookDeleteGet(id) ==
    LET book == FindBook(id)
        bookInstances == InstancesOfBook(id)
        view == Render("book_delete", [book |-> book, book_instances |-> bookInstances])
    IN  /\ Reply(IF book = <<>> THEN <<Redirect(ListUrl("Book")), view>> ELSE <<view>>,
                 <<>>)
        /\ UNCHANGED <<store, created, pending>>

\* the handler without its test of bookInstances: it deletes and redirects
BookDeleteUnchecked(id, bodyid) ==
    /\ books' = Remove(books, bodyid)
    /\ Reply(<<Redirect(ListUrl("Book"))>>, <<Write("findByIdAndDelete", "Book", bodyid)>>)
    /\ UNCHANGED <<authors, genres, bookinstances, created, pending>>

BookDeletePost(id, bodyid) ==
    LET book == FindBook(id)
        bookInstances == InstancesOfBook(id)
        first == IF book = <<>> THEN <<Redirect(ListUrl("Book"))>> ELSE <<>>
    IN  IF HasAny(bookInstances)
        THEN /\ Reply(first \o <<Render("book_delete",
                                        [book |-> book, book_instances |-> bookInstances])>>,
                      <<>>)
             /\ UNCHANGED <<store, created, pending>>
        ELSE /\ books' = Remove(books, bodyid)
             /\ Reply(first \o <<Redirect(ListUrl("Book"))>>,
                      <<Write("findByIdAndDelete", "Book", bodyid)>>)
             /\ UNCHANGED <<authors, genres, bookinstances, created, pending>>

BookUpdateGet(id) ==
    LET book == IF id \in DOMAIN books THEN <<PopulateAuthor(books[id])>> ELSE <<>>
    IN  /\ Reply(IF book = <<>> THEN <<NextError(404)>>
                 ELSE <<Render("book_form",
                               [authors |-> AllOf(authors),
                                genres |-> GenresChecked(books[id]),
                                book |-> book])>>,
                 <<>>)
        /\ UNCHANGED <<store, created, pending>>

BookUpdatePost(id, body) ==
    LET errors == BookErrors(body)
        book == NewBook(body, id)
        thebook == FindById(books, id)
    IN  IF errors # <<>>
        THEN /\ Reply(<<Render("book_form",
                               [authors |-> AllOf(authors), genres |-> GenresChecked(book),
                                book |-> <<book>>, errors |-> errors])>>,
                      <<>>)
             /\ UNCHANGED <<store, created, pending>>
        ELSE /\ books' = FindByIdAndUpdate(books, id, book)
             \* thebook.url of the document the update found: null has no url
             /\ Reply(IF thebook = <<>> THEN <<NextTypeError>>
                      ELSE <<Redirect(Url("Book", thebook[1]._id))>>,
                      <<Write("findByIdAndUpdate", "Book", id)>>)
             /\ UNCHANGED <<authors, genres, bookinstances, created, pending>>

\* ------------------------------------------------ bookinstance controller
BookInstanceErrors(body) ==
    RequiredErrors("book", body.book)
    \o RequiredErrors("imprint", body.imprint)
    \o OptionalDateErrors("due_back", body.due_back, "invalid date")

NewBookInstance(body, id) ==
    [_id |-> id,
     book |-> CastObjectId(Escape(Trim(ToStr(body.book)))),
     imprint |-> Escape(Trim(ToStr(body.imprint))),
     status |-> Escape(ToStr(body.status)),
     due_back |-> CastDate(OptionalDate(body.due_back))]

BookInstanceBodies ==
    {[book |-> <<"1">>, imprint |-> <<"P", "1">>, status |-> <<"Available">>,
      due_back |-> <<>>],
     [book |-> <<" ", "2">>, imprint |-> <<"Q">>, status |-> <<"Loaned">>,
      due_back |-> <<"2025-01-01">>],
     [book |-> <<"1">>, imprint |-> <<" ">>, status |-> <<"Available">>,
      due_back |-> <<>>],
     [book |-> <<>>, imprint |-> <<"P", "1">>, status |-> <<"Maintenance">>,
      due_back |-> <<>>],
     [book |-> Undefined, imprint |-> <<"Q">>, status |-> <<"Available">>,
      due_back |-> <<"t", "b", "d">>]}

PopulateBook(copy) == [copy EXCEPT !.book = FindById(books, @)]
FindBookInstance(id) ==
    IF id \in DOMAIN bookinstances THEN <<PopulateBook(bookinstances[id])>> ELSE <<>>

\* the form of a rejected submission: selected_book is bookInstance.book._id,
\* a TypeError when the path book holds nothing
BookInstanceForm(bookInstance, errors) ==
    IF bookInstance.book = UndefinedRef THEN <<NextTypeError>>
    ELSE <<Render("bookinstance_form",
                  [book_list |-> AllOf(books), selected_book |-> bookInstance.book,
                   errors |-> errors, bookinstance |-> <<bookInstance>>])>>

BookInstanceDetail(id) ==
    LET bookInstance == FindBookInstance(id)
    IN  /\ Reply(IF bookInstance = <<>> THEN <<NextError(404)>>
                 ELSE <<Render("bookinstance_detail", [bookinstance |-> bookInstance])>>,
                 <<>>)
        /\ UNCHANGED <<store, created, pending>>

BookInstanceCreatePost(body) ==
    LET errors == BookInstanceErrors(body)
    IN  IF errors # <<>>
        THEN /\ Reply(BookInstanceForm(NewBookInstance(body, UnsavedId), errors), <<>>)
             /\ UNCHANGED <<store, created, pending>>
        ELSE /\ CanCreate("BookInstance")
             /\ LET bookInstance == NewBookInstance(body, NewObjectId("BookInstance"))
                IN  /\ bookinstances' = Insert(bookinstances, bookInstance)
                    /\ Reply(<<Redirect(Url("BookInstance", bookInstance._id))>>,
                             <<Write("save", "BookInstance", bookInstance._id)>>)
             /\ created' = Count("BookInstance")
             /\ UNCHANGED <<authors, genres, books, pending>>

BookInstanceDeleteGet(id) ==
    LET bookInstance == FindBookInstance(id)
        view == Render("bookinstance_delete", [bookinstance |-> bookInstance])
    IN  /\ Reply(IF bookInstance = <<>> THEN <<Redirect(ListUrl("BookInstance")), view>>
                 ELSE <<view>>,
                 <<>>)
        /\ UNCHANGED <<store, created, pending>>

BookInstanceDeletePost(id, bodyid) ==
    /\ bookinstances' = Remove(bookinstances, bodyid)
    /\ Reply(<<Redirect(ListUrl("BookInstance"))>>,
             <<Write("findByIdAndDelete", "BookInstance", bodyid)>>)
    /\ UNCHANGED <<authors, genres, books, created, pending>>

BookInstanceUpdateGet(id) ==
    LET bookInstance == FindBookInstance(id)
    IN  /\ Reply(IF bookInstance = <<>> THEN <<NextError(404)>>
                 \* selected_book: bookInstance.book._id of the populated book
                 ELSE IF bookInstance[1].book = <<>> THEN <<NextTypeError>>
                 ELSE <<Render("bookinstance_form",
                               [book_list |-> AllOf(books),
                                selected_book |-> bookInstance[1].book[1]._id,
                                bookinstance |-> bookInstance])>>,
                 <<>>)
        /\ UNCHANGED <<store, created, pending>>

BookInstanceUpdatePost(id, body) ==
    LET errors == BookInstanceErrors(body)
        bookInstance == NewBookInstance(body, id)
    IN  IF errors # <<>>
        THEN /\ Reply(BookInstanceForm(bookInstance, errors), <<>>)
             /\ UNCHANGED <<store, created, pending>>
        ELSE /\ bookinstances' = FindByIdAndUpdate(bookinstances, id, bookInstance)
             /\ Reply(<<Redirect(Url("BookInstance", bookInstance._id))>>,
                      <<Write("findByIdAndUpdate", "BookInstance", id)>>)
             /\ UNCHANGED <<authors, genres, books, created, pending>>

\* ------------------------------------------------------------ the program
Init ==
    /\ authors = <<>>
    /\ genres = <<>>
    /\ books = <<>>
    /\ bookinstances = <<>>
    /\ created = [m \in Models |-> 0]
    /\ req = [handler |-> "none"]
    /\ resp = <<>>
    /\ ops = <<>>
    /\ pending = {}

Next ==
    \/ \E id \in ObjectIds :
          AuthorDetail(id) /\ req' = Get("author_detail", id)
    \/ \E body \in AuthorBodies :
          AuthorCreatePost(body) /\ req' = CreatePost("author_create_post", body)
    \/ \E id \in ObjectIds :
          AuthorDeleteGet(id) /\ req' = Get("author_delete_get", id)
    \/ \E id \in ObjectIds, authorid \in ObjectIds :
          AuthorDeletePost(id, authorid) /\ req' = Post("author_delete_post", id, [authorid |-> authorid])
    \/ \E id \in ObjectIds :
          AuthorUpdateGet(id) /\ req' = Get("author_update_get", id)
    \/ \E id \in ObjectIds, body \in AuthorBodies :
          AuthorUpdatePost(id, body) /\ req' = Post("author_update_post", id, body)
    \/ \E id \in ObjectIds :
          GenreDetail(id) /\ req' = Get("genre_detail", id)
    \/ \E body \in GenreBodies :
          GenreCreatePost(body) /\ req' = CreatePost("genre_create_post", body)
    \/ \E id \in ObjectIds :
          GenreDeleteGet(id) /\ req' = Get("genre_delete_get", id)
    \/ \E id \in ObjectIds, bodyid \in ObjectIds :
          GenreDeletePost(id, bodyid) /\ req' = Post("genre_delete_post", id, [id |-> bodyid])
    \/ \E id \in ObjectIds :
          GenreUpdateGet(id) /\ req' = Get("genre_update_get", id)
    \/ \E id \in ObjectIds, body \in GenreBodies :
          GenreUpdatePost(id, body) /\ req' = Post("genre_update_post", id, body)
    \/ \E id \in ObjectIds :
          BookDetail(id) /\ req' = Get("book_detail", id)
    \/ \E body \in BookBodies :
          BookCreatePost(body) /\ req' = CreatePost("book_create_post", body)
    \/ \E id \in ObjectIds :
          BookDeleteGet(id) /\ req' = Get("book_delete_get", id)
    \/ \E id \in ObjectIds, bodyid \in ObjectIds :
          BookDeletePost(id, bodyid) /\ req' = Post("book_delete_post", id, [id |-> bodyid])
    \/ \E id \in ObjectIds :
          BookUpdateGet(id) /\ req' = Get("book_update_get", id)
    \/ \E id \in ObjectIds, body \in BookBodies :
          BookUpdatePost(id, body) /\ req' = Post("book_update_post", id, body)
    \/ \E id \in ObjectIds :
          BookInstanceDetail(id) /\ req' = Get("bookinstance_detail", id)
    \/ \E body \in BookInstanceBodies :
          BookInstanceCreatePost(body) /\ req' = CreatePost("bookinstance_create_post", body)
    \/ \E id \in ObjectIds :
          BookInstanceDeleteGet(id) /\ req' = Get("bookinstance_delete_get", id)
    \/ \E id \in ObjectIds, bodyid \in ObjectIds :
          BookInstanceDeletePost(id, bodyid) /\ req' = Post("bookinstance_delete_post", id, [id |-> bodyid])
    \/ \E id \in ObjectIds :
          BookInstanceUpdateGet(id) /\ req' = Get("bookinstance_update_get", id)
    \/ \E id \in ObjectIds, body \in BookInstanceBodies :
          BookInstanceUpdatePost(id, body) /\ req' = Post("bookinstance_update_post", id, body)

Spec == Init /\ [][Next]_vars

\* ---------------------------------- genre requests suspended at the store
\* genre_create_post up to its await of findOne: the query has run at the store
FreeSlots == (1..MaxPending) \ {p.slot : p \in pending}
GenreCreateAwait(body) ==
    /\ GenreErrors(body) = <<>>
    /\ \E slot \in FreeSlots, genreExists \in GenreFindOneResults(NewGenre(body, UnsavedId).name) :
          pending' = pending \cup
              {[slot |-> slot, req |-> CreatePost("genre_create_post", body),
                genre |-> NewGenre(body, UnsavedId), genreExists |-> genreExists]}
    /\ UNCHANGED <<store, created, req, resp, ops>>

\* the rest of genre_create_post, run when the event loop resumes it
GenreCreateReturn(p) ==
    /\ GenreCreateResume(p.genre, p.genreExists)
    /\ req' = p.req
    /\ pending' = pending \ {p}

NextInterleaved ==
    \/ \E body \in GenreBodies : GenreCreateAwait(body)
    \/ \E p \in pending : GenreCreateReturn(p)
    \/ \E body \in GenreBodies :
          GenreCreatePost(body) /\ req' = CreatePost("genre_create_post", body)
    \/ \E id \in ObjectIds, bodyid \in ObjectIds :
          GenreDeletePost(id, bodyid) /\ req' = Post("genre_delete_post", id, [id |-> bodyid])
    \/ \E id \in ObjectIds, body \in GenreBodies :
          GenreUpdatePost(id, body) /\ req' = Post("genre_update_post", id, body)

SpecInterleaved == Init /\ [][NextInterleaved]_vars

\* ------------------- author delete and book create suspended at the store
\* author_delete_post up to its await of Promise.all: findById and Book.find
\* have run at the store, the handler waits to be resumed with what they read
AuthorDeleteAwait(id, authorid) ==
    /\ \E slot \in FreeSlots :
          pending' = pending \cup
              {[slot |-> slot,
                req |-> Post("author_delete_post", id, [authorid |-> authorid]),
                author |-> FindById(authors, id),
                allBooksByAuthor |-> BooksByAuthor(id)]}
    /\ UNCHANGED <<store, created, req, resp, ops>>

\* the rest of author_delete_post, run when the event loop resumes it: the
\* test is on the Books read before the suspension, the delete is on the
\* store as it is now
AuthorDeleteReturn(p) ==
    /\ p.req.handler = "author_delete_post"
    /\ IF HasAny(p.allBooksByAuthor)
       THEN /\ Reply(<<Render("author_delete",
                              [author |-> p.author, author_books |-> p.allBooksByAuthor])>>,
                     <<>>)
            /\ UNCHANGED <<store, created>>
       ELSE /\ authors' = Remove(authors, p.req.body.authorid)
            /\ Reply(<<Redirect(ListUrl("Author"))>>,
                     <<Write("findByIdAndDelete", "Author", p.req.body.authorid)>>)
            /\ UNCHANGED <<genres, books, bookinstances, created>>
    /\ req' = p.req
    /\ pending' = pending \ {p}

\* book_create_post with a valid body up to its await of book.save(): the
\* save has run at the store
BookCreateAwait(body) ==
    /\ BookErrors(body) = <<>>
    /\ CanCreate("Book")
    /\ \E slot \in FreeSlots :
          LET book == NewBook(body, NewObjectId("Book"))
          IN  /\ books' = Insert(books, book)
              /\ pending' = pending \cup
                    {[slot |-> slot, req |-> CreatePost("book_create_post", body),
                      book |-> book]}
    /\ created' = Count("Book")
    /\ UNCHANGED <<authors, genres, bookinstances, req, resp, ops>>

\* the rest of book_create_post: the redirect to the saved Book
BookCreateReturn(p) ==
    /\ p.req.handler = "book_create_post"
    /\ Reply(<<Redirect(Url("Book", p.book._id))>>,
             <<Write("save", "Book", p.book._id)>>)
    /\ req' = p.req
    /\ pending' = pending \ {p}
    /\ UNCHANGED <<store, created>>

NextAuthorBook ==
    \/ \E body \in AuthorBodies :
          AuthorCreatePost(body) /\ req' = CreatePost("author_create_post", body)
    \/ \E id \in ObjectIds, authorid \in ObjectIds : AuthorDeleteAwait(id, authorid)
    \/ \E p \in pending : AuthorDeleteReturn(p)
    \/ \E body \in BookBodies : BookCreateAwait(body)
    \/ \E p \in pending : BookCreateReturn(p)

SpecAuthorBook == Init /\ [][NextAuthorBook]_vars

\* ------------------------------------------------------------ the claims
\* A claim about one request reads the store the handler found in the
\* unprimed collections, the store it left in the primed ones, and the request
\* with what the handler did for it in req', resp' and ops'.
Collection(m) ==
    CASE m = "Author" -> authors
      [] m = "Genre" -> genres
      [] m = "Book" -> books
      [] m = "BookInstance" -> bookinstances

\* the dependent records of the record id of model m
Referencing(m, id) ==
    CASE m = "Author" -> {b \in AllOf(books) : b.author = id}
      [] m = "Genre" -> {b \in AllOf(books) : \E i \in 1..Len(b.genre) : b.genre[i] = id}
      [] m = "Book" -> {c \in AllOf(bookinstances) : c.book = id}
      [] m = "BookInstance" -> {}

Handler ==
    [Author |-> [detail |-> "author_detail", create_post |-> "author_create_post",
                 delete_get |-> "author_delete_get", delete_post |-> "author_delete_post",
                 update_get |-> "author_update_get", update_post |-> "author_update_post"],
     Genre |-> [detail |-> "genre_detail", create_post |-> "genre_create_post",
                delete_get |-> "genre_delete_get", delete_post |-> "genre_delete_post",
                update_get |-> "genre_update_get", update_post |-> "genre_update_post"],
     Book |-> [detail |-> "book_detail", create_post |-> "book_create_post",
               delete_get |-> "book_delete_get", delete_post |-> "book_delete_post",
               update_get |-> "book_update_get", update_post |-> "book_update_post"],
     BookInstance |-> [detail |-> "bookinstance_detail",
                       create_post |-> "bookinstance_create_post",
                       delete_get |-> "bookinstance_delete_get",
                       delete_post |-> "bookinstance_delete_post",
                       update_get |-> "bookinstance_update_get",
                       update_post |-> "bookinstance_update_post"]]
ConfirmView ==
    [Author |-> "author_delete", Genre |-> "genre_delete", Book |-> "book_delete",
     BookInstance |-> "bookinstance_delete"]
FormView ==
    [Author |-> "author_form", Genre |-> "genre_form", Book |-> "book_form",
     BookInstance |-> "bookinstance_form"]
RequiredFields ==
    [Author |-> {"first_name", "family_name"}, Genre |-> {"name"},
     Book |-> {"title", "author", "summary", "isbn"}, BookInstance |-> {"book", "imprint"}]

OneRender(r, view) == Len(r) = 1 /\ r[1].call = "render" /\ r[1].view = view
OthersUnchanged(m) == \A o \in Models \ {m} : Collection(o)' = Collection(o)
SameIgnoringCase(a, b) == Lower(a) = Lower(b)
ValidatedName(body) == Escape(Trim(ToStr(body.name)))
ErrorsOf(m, body) ==
    CASE m = "Author" -> AuthorErrors(body)
      [] m = "Genre" -> GenreErrors(body)
      [] m = "Book" -> BookErrors(body)
      [] m = "BookInstance" -> BookInstanceErrors(body)
Submitted(m, body, id) ==
    CASE m = "Author" -> NewAuthor(body, id)
      [] m = "Genre" -> NewGenre(body, id)
      [] m = "Book" -> NewBook(body, id)
      [] m = "BookInstance" -> NewBookInstance(body, id)

\* C1: a delete POST of an Author, Genre or Book that exists and has at least
\* one dependent record performs no delete and changes no record, and answers
\* with one render of the delete-confirmation view, whatever id the body carries.
C1_RefusedDeleteChangesNothing ==
    [][\A m \in {"Author", "Genre", "Book"} :
          (/\ req'.handler = Handler[m].delete_post
           /\ req'.id \in DOMAIN Collection(m)
           /\ Referencing(m, req'.id) # {})
          => /\ store' = store
             /\ ops' = <<>>
             /\ OneRender(resp', ConfirmView[m])]_vars

\* an Author with a Book was asked to be deleted, with another id in the body
C1_Witness ==
    /\ req.handler = "author_delete_post"
    /\ req.id \in DOMAIN authors
    /\ Referencing("Author", req.id) # {}
    /\ req.body.authorid # req.id
    /\ OneRender(resp, "author_delete")
    /\ ops = <<>>

\* C2: a delete POST of a record that exists and has no dependent record
\* removes the record of the URL id and no other record, whatever id the body
\* carries, and redirects to the list view of the entity.
C2_DeleteRemovesTheUrlRecord ==
    [][\A m \in Models :
          (/\ req'.handler = Handler[m].delete_post
           /\ req'.id \in DOMAIN Collection(m)
           /\ Referencing(m, req'.id) = {})
          => /\ Collection(m)' = Remove(Collection(m), req'.id)
             /\ OthersUnchanged(m)
             /\ resp' = <<Redirect(ListUrl(m))>>]_vars

\* C3: an Author or a Genre leaves the store only in a step that starts where
\* no Book references it.
C3_RemovedOnlyWhenUnreferenced ==
    [][\A m \in {"Author", "Genre"}, id \in ObjectIds :
          (id \in DOMAIN Collection(m) /\ id \notin DOMAIN Collection(m)')
          => Referencing(m, id) = {}]_vars

\* C4: a Genre create POST that passes validation with a name equal, letter
\* case aside, to the name of a Genre in the store creates no record and
\* redirects to the detail URL of a Genre with that name.
C4_DuplicateGenreNotCreated ==
    [][(/\ req'.handler = "genre_create_post"
        /\ GenreErrors(req'.body) = <<>>
        /\ \E g \in AllOf(genres) : SameIgnoringCase(g.name, ValidatedName(req'.body)))
       => /\ store' = store
          /\ ops' = <<>>
          /\ \E g \in AllOf(genres) :
                /\ SameIgnoringCase(g.name, ValidatedName(req'.body))
                /\ resp' = <<Redirect(Url("Genre", g._id))>>]_vars

\* a create POST named an existing Genre in another letter case and was
\* redirected to it
C4_Witness ==
    /\ req.handler = "genre_create_post"
    /\ ops = <<>>
    /\ \E g \in AllOf(genres) :
          /\ g.name # ValidatedName(req.body)
          /\ SameIgnoringCase(g.name, ValidatedName(req.body))
          /\ resp = <<Redirect(Url("Genre", g._id))>>

\* C5: no two Genre records of the store have names that are equal letter case
\* aside, whatever create, update and delete requests ran, two creates
\* interleaved at their store calls included.
C5_GenreNamesUnique ==
    \A g \in AllOf(genres), h \in AllOf(genres) :
        g._id # h._id => ~SameIgnoringCase(g.name, h.name)

\* C6: a create or update POST with a required field missing or empty after
\* trim writes nothing and answers with one render of the form whose errors
\* hold a message for that field.
C6_MissingFieldRendersForm ==
    [][\A m \in Models : \A f \in RequiredFields[m] :
          (/\ req'.handler \in {Handler[m].create_post, Handler[m].update_post}
           /\ Trim(ToStr(req'.body[f])) = <<>>)
          => /\ store' = store
             /\ ops' = <<>>
             /\ OneRender(resp', FormView[m])
             /\ \E i \in 1..Len(resp'[1].locals.errors) :
                   resp'[1].locals.errors[i].path = f]_vars

\* C7: a delete-confirmation GET whose id resolves to no record answers with
\* the redirect to the list view and nothing else, and leaves the store as it is.
C7_DeleteGetOfMissingOnlyRedirects ==
    [][\A m \in Models :
          (req'.handler = Handler[m].delete_get /\ req'.id \notin DOMAIN Collection(m))
          => /\ store' = store
             /\ resp' = <<Redirect(ListUrl(m))>>]_vars

\* C8: a detail GET or update-form GET leaves the store as it is; when its id
\* resolves to no record it only passes a 404 error on, and when its id
\* resolves to a record it renders one template and passes no error on.
C8_GetOfMissingIs404 ==
    [][\A m \in Models :
          req'.handler \in {Handler[m].detail, Handler[m].update_get}
          => /\ store' = store
             /\ ops' = <<>>
             /\ IF req'.id \notin DOMAIN Collection(m)
                THEN resp' = <<NextError(404)>>
                ELSE Len(resp') = 1 /\ resp'[1].call = "render"]_vars

\* C9: an update POST that passes validation leaves the set of identifiers as
\* it is, sets the record of the URL id to the submitted values under the same
\* identifier, changes no other record, and redirects to the detail view of
\* that id.
C9_UpdateWritesOnlyTheUrlRecord ==
    [][\A m \in Models :
          (req'.handler = Handler[m].update_post /\ ErrorsOf(m, req'.body) = <<>>)
          => /\ DOMAIN Collection(m)' = DOMAIN Collection(m)
             /\ \A i \in DOMAIN Collection(m) :
                   Collection(m)'[i] = IF i = req'.id THEN Submitted(m, req'.body, i)
                                       ELSE Collection(m)[i]
             /\ OthersUnchanged(m)
             /\ resp' = <<Redirect(Url(m, req'.id))>>]_vars

\* C10, as stated: a Book that BookInstance records reference is removed by
\* its delete POST.
C10_ReferencedBookIsRemoved ==
    [][(/\ req'.handler = "book_delete_post"
        /\ req'.id \in DOMAIN books
        /\ Referencing("Book", req'.id) # {})
       => req'.id \notin DOMAIN books']_vars

\* C10, amended: a Book delete POST checks the BookInstance records that
\* reference the URL id before it deletes; when there is one it deletes
\* nothing and ends with a render of the confirmation view.
C10_ReferencedBookIsKept ==
    [][(req'.handler = "book_delete_post" /\ Referencing("Book", req'.id) # {})
       => /\ books' = books
          /\ bookinstances' = bookinstances
          /\ ops' = <<>>
          /\ resp' # <<>>
          /\ resp'[Len(resp')].call = "render"
          /\ resp'[Len(resp')].view = "book_delete"]_vars

\* a Book with a copy was asked to be deleted under its own id and is still there
C10_Witness ==
    /\ req.handler = "book_delete_post"
    /\ req.body.id = req.id
    /\ req.id \in DOMAIN books
    /\ Referencing("Book", req.id) # {}
    /\ ops = <<>>

\* C11: a delete POST, on every path, answers once, with the render of the
\* confirmation view or the redirect to the list view, and makes at most one
\* delete; when the URL id resolves to no record it answers with the one
\* redirect and removes no record.
C11_DeletePostAnswersOnce ==
    [][\A m \in Models :
          req'.handler = Handler[m].delete_post
          => /\ Len(resp') = 1
             /\ \/ OneRender(resp', ConfirmView[m])
                \/ resp' = <<Redirect(ListUrl(m))>>
             /\ Len(ops') <= 1
             /\ req'.id \notin DOMAIN Collection(m)
                => (resp' = <<Redirect(ListUrl(m))>> /\ store' = store)]_vars

\* C12: with an Author delete POST and a Book create POST suspended at their
\* store calls, the delete of the Author its URL names never removes that
\* Author while a saved Book references it.
C12_AuthorRemovedOnlyBeforeBookSaved ==
    [][\A id \in ObjectIds :
          (/\ req'.handler = "author_delete_post"
           /\ req'.id = id
           /\ req'.body.authorid = id
           /\ id \in DOMAIN authors
           /\ id \notin DOMAIN authors')
          => Referencing("Author", id) = {}]_vars

=============================================================================
